---- MODULE Spec2Model ----
(***************************************************************************)
(* Offline classroom attendance kiosk (src/app.py): a Flask application    *)
(* over SQLite.  Every client holds one cookie session and issues one      *)
(* request at a time; the requests of different clients interleave at the  *)
(* granularity of their database statements.  Text is a sequence of        *)
(* one-character strings, so that strip(), upper(), concatenation and      *)
(* slicing are computed as Python computes them.                           *)
(***************************************************************************)
EXTENDS Integers, Sequences, FiniteSets, TLC

\* ------------------------------------------------------------------ bounds
\* Calendar days the clock runs through.
MaxDay == 2
\* Requests served and midnights passed in one behaviour, not counting
\* check-in POSTs whose three fields are all empty.
MaxRequests == 2
\* The same, in a behaviour in which one session is driven to the ceiling of
\* the limiter by check-in POSTs whose three fields are all empty.
MaxFloodRequests == 1
\* How far past the ceiling such a session's attempt counter is followed.
MaxOver == 1
\* Students on the roster a report is taken of.
MaxRoster == 2

\* --------------------------------------------------------- program constants
\* bump_rate_limit(max_attempts=20)
max_attempts == 20
\* log(): detail[:1000]
DetailMax == 1000
\* kiosk(): request.headers.get("User-Agent", "")[:300]
UserAgentMax == 300

Sessions == {"s1", "s2"}

\* --------------------------------------------------------------------- text
\* Python's None: a one-element sequence no text (sequence of characters) equals.
None == <<"<None>">>

IsSpace(c) == c = " "

\* str.upper() on the characters that occur.
UpperChar(c) ==
    CASE c = "a" -> "A" [] c = "b" -> "B" [] c = "c" -> "C"
      [] c = "d" -> "D" [] c = "e" -> "E" [] c = "f" -> "F"
      [] OTHER -> c

\* An upper() that leaves every letter as it is.
upper_none(t) == t

upper(t) == [i \in 1..Len(t) |-> UpperChar(t[i])]

RECURSIVE lstrip(_)
lstrip(t) == IF t # <<>> /\ IsSpace(Head(t)) THEN lstrip(Tail(t)) ELSE t

RECURSIVE rstrip(_)
rstrip(t) ==
    IF t # <<>> /\ IsSpace(t[Len(t)]) THEN rstrip(SubSeq(t, 1, Len(t) - 1)) ELSE t

\* str.strip()
strip(t) == rstrip(lstrip(t))

\* t[:n]
Prefix(t, n) == SubSeq(t, 1, IF Len(t) < n THEN Len(t) ELSE n)

\* date.isoformat() / strftime of the clock: one digit names the day.
DayText(d) == <<CASE d = 1 -> "1" [] d = 2 -> "2" [] d = 3 -> "3" [] OTHER -> "9">>

\* The characters that occur, in the order of their code points: SQLite's
\* BINARY collation compares TEXT byte by byte.
Alphabet ==
    <<" ", "+", "-", "0", "1", "2", "3", "4", "5", "6", "7", "8", "9",
      "A", "B", "U", "X", "a", "b", "n", "x">>

Ord(c) == CHOOSE i \in 1..Len(Alphabet) : Alphabet[i] = c

\* a < b as TEXT
RECURSIVE TextLess(_, _)
TextLess(a, b) ==
    IF b = <<>> THEN FALSE
    ELSE IF a = <<>> THEN TRUE
    ELSE IF Head(a) # Head(b) THEN Ord(Head(a)) < Ord(Head(b))
    ELSE TextLess(Tail(a), Tail(b))

IsDigit(c) == c \in {"0", "1", "2", "3", "4", "5", "6", "7", "8", "9"}

DigitValue(c) == Ord(c) - Ord("0")

\* The value of the longest prefix of t made of digits, read after acc.
RECURSIVE DigitsValue(_, _)
DigitsValue(t, acc) ==
    IF t = <<>> \/ ~IsDigit(Head(t)) THEN acc
    ELSE DigitsValue(Tail(t), acc * 10 + DigitValue(Head(t)))

\* CAST(t AS INT) of SQLite: blanks in front are skipped, then an optional
\* sign and the longest run of digits are read; what follows is ignored and
\* a text with no digit there is 0.
CastInt(t) ==
    LET u == lstrip(t)
    IN IF u # <<>> /\ Head(u) = "-" THEN 0 - DigitsValue(Tail(u), 0)
       ELSE IF u # <<>> /\ Head(u) = "+" THEN DigitsValue(Tail(u), 0)
       ELSE DigitsValue(u, 0)

\* ------------------------------------------------------------------- inputs
\* secrets.token_hex(3): lower-case hexadecimal text.
TokenHex == {<<"a", "1">>, <<"b", "2">>}
\* secrets.token_hex(16)
Salts == {<<"e">>, <<"f">>}

\* A roll number as long as an audit detail may get.
LongRoll == [i \in 1..DetailMax |-> "7"]

\* The check-in forms sent: roll_no, pin and session_code as typed.  Roll 12
\* with PIN 4 is the enrolled student's pair; the codes are the two tokens in
\* another letter case or with a blank in front; the last form carries the
\* long roll number.
KioskForms ==
    {[roll_no |-> <<>>, pin |-> <<>>, session_code |-> <<>>],
     [roll_no |-> <<"1", "2", " ">>, pin |-> <<"4">>, session_code |-> <<" ", "a", "1">>],
     [roll_no |-> <<"1", "2", " ">>, pin |-> <<"4">>, session_code |-> <<"B", "2">>],
     [roll_no |-> <<"1", "2", " ">>, pin |-> <<"5">>, session_code |-> <<" ", "a", "1">>],
     [roll_no |-> <<" ">>, pin |-> <<"4">>, session_code |-> <<" ", "a", "1">>],
     [roll_no |-> <<"1", "2", " ">>, pin |-> <<>>, session_code |-> <<"B", "2">>],
     [roll_no |-> LongRoll, pin |-> <<"4">>, session_code |-> <<"B", "2">>]}

\* What the add-student form may carry.
AddRollInputs == {<<"1", "2">>, <<" ">>}
AddPinInputs == {<<"4">>}
NameInput == <<"n">>
ClassInput == <<"X">>
SectionInput == <<"A">>

AdminUser == <<"a", "d", "m", "i", "n">>
AdminPassword == <<"a", "d", "m", "i", "n", "1", "2", "3">>
AdminSalt == <<"d">>
\* The login forms sent: the default pair, and a wrong password.
LoginForms ==
    {[username |-> AdminUser \o <<" ">>, password |-> AdminPassword],
     [username |-> AdminUser, password |-> <<"x">>]}
\* The change-password forms sent: old, new and new2.
ChangeForms ==
    {[old |-> AdminPassword, new |-> <<"x">>, new2 |-> <<"x">>],
     [old |-> AdminPassword, new |-> <<"x">>, new2 |-> <<>>]}
UserAgentInput == <<"U", "A">>

VARIABLES
    clock,        \* the calendar day date.today() / datetime.now() read
    admin,        \* table admin: a set of rows
    students,     \* table students: rows in insertion order, id = position
    day_session,  \* table day_session: a set of rows
    attendance,   \* table attendance: rows in insertion order, id = position
    audit_log,    \* table audit_log: rows in insertion order
    snapshots,    \* files under SNAP_DIR
    session,      \* the cookie session of each client
    req,          \* the request each client has in flight
    resp,         \* the response that left last
    nposts,       \* check-in POSTs that reached the limiter since the
                  \* session's counter was last absent
    limited,      \* the session has had a check-in POST rejected with 429
    nreq,         \* requests served and midnights passed, all-empty check-in
                  \* POSTs not counted
    flooder       \* the session that sends all-empty check-in POSTs, if any

vars == <<clock, admin, students, day_session, attendance, audit_log, snapshots,
          session, req, resp, nposts, limited, nreq, flooder>>

db_vars == <<admin, students, day_session, attendance, audit_log, snapshots>>


\* ------------------------------------------------------------------ helpers
\* date.today().isoformat(): the day the clock shows when it is read.
today == clock

\* datetime.now().strftime(...) as it enters a file name.  The timestamp
\* columns (created_at, ts, checked_in_at, the limiter's "ts") are written once
\* and decide nothing: the rows are kept without them.
now == clock

\* hash_pw: the iterated SHA-256 of salt + password, a one-way function of the
\* concatenated text and of nothing else.
hash_pw(password, salt) == <<"sha256^150000">> \o salt \o password

\* A log() that stores the detail whole.
log_whole(al, event, detail) == Append(al, [event |-> event, detail |-> detail])

\* log(event, detail): one row appended to audit_log, detail cut to 1000.
log(al, event, detail) ==
    Append(al, [event |-> event, detail |-> Prefix(detail, DetailMax)])

\* f-string pieces of the audit details
T_day == <<"d", "a", "y", "=">>
T_code == <<",", " ", "c", "o", "d", "e", "=">>
T_roll == <<"r", "o", "l", "l", "=">>
T_reason == <<",", " ", "r", "e", "a", "s", "o", "n", "=">>
T_bad_session_code == <<"b", "a", "d", "_", "s", "e", "s", "s", "i", "o", "n", "_", "c", "o", "d", "e">>
T_unknown_roll == <<"u", "n", "k", "n", "o", "w", "n", "_", "r", "o", "l", "l">>
T_bad_pin == <<"b", "a", "d", "_", "p", "i", "n">>
T_snap == <<",", " ", "s", "n", "a", "p", "=">>
T_none == <<"n", "o", "n", "e">>
T_already == <<" ", "a", "l", "r", "e", "a", "d", "y", " ", "c", "h", "e", "c", "k", "e", "d", " ", "t", "o", "d", "a", "y">>
T_name == <<",", " ", "n", "a", "m", "e", "=">>
T_class == <<",", " ", "c", "l", "a", "s", "s", "=">>
T_jpg == <<".", "j", "p", "g">>
T_pw_change == <<"a", "d", "m", "i", "n", " ", "p", "a", "s", "s", "w", "o", "r", "d", " ", "c", "h", "a", "n", "g", "e", "d">>
T_init_admin == <<"D", "e", "f", "a", "u", "l", "t", " ", "a", "d", "m", "i", "n", " ", "c", "r", "e", "a", "t", "e", "d", " ", "(", "a", "d", "m", "i", "n", "/", "a", "d", "m", "i", "n", "1", "2", "3", ")", ".", " ", "C", "h", "a", "n", "g", "e", " ", "A", "S", "A", "P", ".">>

ReasonText(reason) ==
    CASE reason = "bad_session_code" -> T_bad_session_code
      [] reason = "unknown_roll" -> T_unknown_roll
      [] reason = "bad_pin" -> T_bad_pin

\* The flash() text of each rejection, and the success page.
M_fill == "Fill all fields."
M_wrong_code == "Wrong session code. Ask teacher for today's code."
M_unknown_roll == "Unknown roll number."
M_wrong_pin == "Wrong PIN."
M_already == "Already checked in today."
M_checked_in == "Checked in"

FailMessage(reason) ==
    CASE reason = "bad_session_code" -> M_wrong_code
      [] reason = "unknown_roll" -> M_unknown_roll
      [] reason = "bad_pin" -> M_wrong_pin

\* ------------------------------------------------------------------ session
\* A Flask session: the keys "admin" and "rl"; an absent key is <<>>.
EmptySession == [admin |-> FALSE, rl |-> <<>>]

\* rate_limit_key(): the session's "rl" entry, created at zero when absent.
rate_limit_key(sess) ==
    IF sess.rl = <<>> THEN [count |-> 0] ELSE sess.rl[1]

\* A limiter whose ceiling is one attempt too low: count >= max_attempts.
bump_rate_limit_early(sess) ==
    LET rl == rate_limit_key(sess)
        bumped == [rl EXCEPT !.count = @ + 1]
    IN [session |-> [sess EXCEPT !.rl = <<bumped>>],
        abort |-> bumped.count >= max_attempts]

\* bump_rate_limit(): the counter goes up by one and is stored back; the
\* request is aborted with 429 when it exceeds max_attempts.
bump_rate_limit(sess) ==
    LET rl == rate_limit_key(sess)
        bumped == [rl EXCEPT !.count = rl.count + 1]
    IN [session |-> [sess EXCEPT !.rl = <<bumped>>],
        abort |-> bumped.count > max_attempts]

\* A require_admin() that lets every session through.
require_admin_none(sess) == FALSE

\* require_admin(): TRUE when the request is redirected to the login page.
require_admin(sess) == ~sess.admin

\* ----------------------------------------------------------------- requests
\* A request in flight: where its handler stands (pc), the locals the handler
\* holds, and the steps it has taken (trace).
NoReq ==
    [route |-> "none", method |-> "GET", pc |-> "idle", empty_form |-> FALSE,
     form |-> [roll_no |-> <<>>, pin |-> <<>>, session_code |-> <<>>],
     roll_no |-> <<>>, pin |-> <<>>, session_code |-> <<>>,
     d |-> 0, code |-> None, stu |-> 0, snap_file |-> None,
     n |-> 0, was_limited |-> FALSE,
     day |-> <<>>, rows |-> <<>>, present |-> 0, absent |-> 0,
     trace |-> <<>>, status |-> 0, outcome |-> "", msg |-> ""]

NewReq(route, method) == [NoReq EXCEPT !.route = route, !.method = method]

\* The handler returns (or aborts): the response.
Respond(r, status, outcome, msg) ==
    [r EXCEPT !.pc = "done", !.status = status, !.outcome = outcome, !.msg = msg]

NoResponse == [s |-> "", r |-> NoReq]

Step(r, label) == [r EXCEPT !.trace = Append(@, label)]

\* The request of s goes on as r; when r is a response it leaves, the
\* handler's locals are gone, and resp keeps what it was.
Move(s, r) ==
    /\ req' = [req EXCEPT ![s] = IF r.pc = "done" THEN NoReq ELSE r]
    /\ resp' = IF r.pc = "done" THEN [s |-> s, r |-> r] ELSE resp

Resting(s) == req[s].pc = "idle"

AllEmpty(form) == form.roll_no = <<>> /\ form.pin = <<>> /\ form.session_code = <<>>

\* One session is being driven to the ceiling and is not near it yet: nothing
\* else is served meanwhile.
Ramping ==
    /\ flooder # ""
    /\ ~limited[flooder]
    /\ rate_limit_key(session[flooder]).count < max_attempts - 1

\* A request that counts against the bound on requests may start, or midnight
\* may pass.
MayStart ==
    /\ ~Ramping
    /\ nreq < (IF flooder # "" THEN MaxFloodRequests ELSE MaxRequests)

\* An all-empty check-in POST may start.
MayFlood(s) ==
    /\ flooder \in {"", s}
    /\ flooder = "" => nreq = 0
    /\ rate_limit_key(session[s]).count < max_attempts + MaxOver

\* day_session without its PRIMARY KEY: no insert conflicts.
DaySessionConflict_none(ds, d) == FALSE

\* ----------------------------------------------------------------- database
\* day_session.day is the PRIMARY KEY: an insert for a day that has a row fails.
DaySessionConflict(ds, d) == \E r \in ds : r.day = d

\* attendance without UNIQUE(student_id, day): no insert conflicts.
AttendanceConflict_none(att, student_id, d) == FALSE

\* attendance UNIQUE(student_id, day): an insert for a pair that has a row fails.
AttendanceConflict(att, student_id, d) ==
    \E i \in 1..Len(att) : att[i].student_id = student_id /\ att[i].day = d

\* students.roll_no is UNIQUE.
StudentConflict(st, roll) == \E i \in 1..Len(st) : st[i].roll_no = roll

\* SELECT * FROM students WHERE roll_no=?: the id of the row, 0 when none.
FindStudent(st, roll) ==
    IF \E i \in 1..Len(st) : st[i].roll_no = roll
    THEN CHOOSE i \in 1..Len(st) : st[i].roll_no = roll
    ELSE 0

\* --------------------------------------------------------------------- time
\* Midnight passes.
Tick ==
    /\ clock < MaxDay
    /\ MayStart
    /\ clock' = clock + 1
    /\ nreq' = nreq + 1
    /\ UNCHANGED <<db_vars, session, req, resp, nposts, limited, flooder>>

\* ------------------------------------------------ get_or_create_session_code
\* What the caller does with the code it is handed: kiosk POST goes on to the
\* limiter; kiosk GET and the dashboard render their page.
AfterCode(r, code) ==
    IF r.route = "kiosk" /\ r.method = "POST"
    THEN [r EXCEPT !.code = code, !.pc = "post"]
    ELSE Respond([r EXCEPT !.code = code], 200, "page", "")

\* A kiosk() that leaves today's code unread until the limiter has been passed:
\* a POST goes to the limiter at once.
goc_after_limiter(s, r0) ==
    IF r0.route = "kiosk" /\ r0.method = "POST"
    THEN Move(s, [r0 EXCEPT !.d = today, !.pc = "post"])
    ELSE Move(s, [Step([r0 EXCEPT !.d = today], "goc_select") EXCEPT !.pc = "goc_insert"])

\* A get_or_create_session_code() that logs NEW_DAY_SESSION for a row it found
\* as well.
goc_select_logging(s, r0) ==
    LET d == today
        r == Step([r0 EXCEPT !.d = d], "goc_select")
        rows == {x \in day_session : x.day = d}
    IN IF rows # {}
       THEN \E x \in rows : Move(s, [r EXCEPT !.code = x.session_code, !.pc = "goc_log"])
       ELSE Move(s, [r EXCEPT !.pc = "goc_insert"])

\* d = today(); SELECT session_code FROM day_session WHERE day=?; a row found
\* is returned as it is, otherwise the caller goes on to insert one.  This is
\* the first statement of kiosk() and, past require_admin(), of
\* admin_dashboard().
goc_select(s, r0) ==
    LET d == today
        r == Step([r0 EXCEPT !.d = d], "goc_select")
        rows == {x \in day_session : x.day = d}
    IN IF rows # {}
       THEN \E x \in rows : Move(s, AfterCode(r, x.session_code))
       ELSE Move(s, [r EXCEPT !.pc = "goc_insert"])

\* code = secrets.token_hex(3).upper(); INSERT INTO day_session; commit.  The
\* IntegrityError of a day that has got its row meanwhile is caught nowhere:
\* the request ends in a server error.
goc_insert(s) ==
    /\ req[s].pc = "goc_insert"
    /\ \E tok \in TokenHex :
         LET code == upper(tok)
             r == Step(req[s], "goc_insert")
         IN IF DaySessionConflict(day_session, r.d)
            THEN /\ Move(s, Respond(r, 500, "integrity_error", ""))
                 /\ UNCHANGED day_session
            ELSE /\ day_session' = day_session \cup
                        {[day |-> r.d, session_code |-> code]}
                 /\ Move(s, [r EXCEPT !.code = code, !.pc = "goc_log"])
    /\ UNCHANGED <<clock, admin, students, attendance, audit_log, snapshots,
                   session, nposts, limited, nreq, flooder>>

\* log("NEW_DAY_SESSION", f"day={d}, code={code}"); return code
goc_log(s) ==
    /\ req[s].pc = "goc_log"
    /\ LET r == Step(req[s], "goc_log")
       IN /\ audit_log' = log(audit_log, "NEW_DAY_SESSION",
                              T_day \o DayText(r.d) \o T_code \o r.code)
          /\ Move(s, AfterCode(r, r.code))
    /\ UNCHANGED <<clock, admin, students, day_session, attendance, snapshots,
                   session, nposts, limited, nreq, flooder>>

\* -------------------------------------------------------------------- kiosk
\* GET /kiosk: today's code, then the page that shows it.
kiosk_get(s) ==
    /\ Resting(s)
    /\ MayStart
    /\ goc_select(s, NewReq("kiosk", "GET"))
    /\ nreq' = nreq + 1
    /\ UNCHANGED <<clock, db_vars, session, nposts, limited, flooder>>

\* POST /kiosk: today's code comes first; the form is drawn where the handler
\* reads it.
kiosk_post(s) ==
    /\ Resting(s)
    /\ \E empty \in BOOLEAN :
         /\ goc_select(s, [NewReq("kiosk", "POST") EXCEPT !.empty_form = empty])
         /\ IF empty
            THEN MayFlood(s) /\ flooder' = s /\ UNCHANGED nreq
            ELSE MayStart /\ nreq' = nreq + 1 /\ UNCHANGED flooder
    /\ UNCHANGED <<clock, db_vars, session, nposts, limited>>

\* if not roll_no or not pin or not session_code
fields_missing(roll_no, pin, session_code) ==
    roll_no = <<>> \/ pin = <<>> \/ session_code = <<>>

\* A comparison that lets every session code through.
code_matches_any(session_code, code) == TRUE

\* if session_code != code: the rejection's condition, negated
code_matches(session_code, code) == session_code = code

\* A comparison that lets every PIN through.
pin_matches_any(pin, stu) == TRUE

\* expected = hash_pw(pin, stu["salt"]); if expected != stu["pin_hash"]: negated
pin_matches(pin, stu) == hash_pw(pin, stu.salt) = stu.pin_hash

\* What the camera does when capture_snapshot runs.
CameraOutcomes == {"no_camera", "written", "not_written"}

\* capture_snapshot(roll_no): None without OpenCV, without an opened camera or
\* without a frame; otherwise the file name, whatever cv2.imwrite made of it.
capture_snapshot(roll_no, cam) ==
    IF cam = "no_camera"
    THEN [file |-> None, written |-> FALSE]
    ELSE [file |-> DayText(today) \o <<"_">> \o roll_no \o <<"_">>
                     \o DayText(now) \o T_jpg,
          written |-> cam = "written"]

\* log("CHECKIN_FAIL", f"roll={roll_no}, reason=..."); flash(...); redirect
checkin_fail(al, r, reason) ==
    [audit_log |-> log(al, "CHECKIN_FAIL",
                       T_roll \o r.roll_no \o T_reason \o ReasonText(reason)),
     response |-> Respond(Step(r, "log"), 302, reason, FailMessage(reason))]

\* The body of the POST branch up to the insert: bump_rate_limit(); the three
\* fields stripped (the code upper-cased too); a missing field is flashed; the
\* code is compared with today's; the student is looked up by roll number; the
\* PIN is hashed with the row's salt and compared; the snapshot is taken.  Each
\* rejection is logged and answered where it is found.
kiosk_check(s) ==
    /\ req[s].pc = "post"
    /\ \E form \in KioskForms, cam \in CameraOutcomes :
         /\ req[s].empty_form <=> AllEmpty(form)
         /\ LET b == bump_rate_limit(session[s])
                r0 == Step([req[s] EXCEPT !.n = nposts[s] + 1,
                                          !.was_limited = limited[s]], "bump")
                roll_no == strip(form.roll_no)
                pin == strip(form.pin)
                session_code == upper(strip(form.session_code))
                r1 == Step([r0 EXCEPT !.form = form, !.roll_no = roll_no, !.pin = pin,
                                      !.session_code = session_code], "fields")
                r2 == Step(r1, "code_cmp")
                stu == FindStudent(students, roll_no)
                r3 == Step([r2 EXCEPT !.stu = stu], "lookup")
                r4 == Step(r3, "pin_check")
                c == capture_snapshot(roll_no, cam)
                r5 == Step([r4 EXCEPT !.snap_file = c.file], "snapshot")
                fail == IF ~code_matches(session_code, r0.code)
                        THEN checkin_fail(audit_log, r2, "bad_session_code")
                        ELSE IF stu = 0
                        THEN checkin_fail(audit_log, r3, "unknown_roll")
                        ELSE checkin_fail(audit_log, r4, "bad_pin")
                passed == /\ code_matches(session_code, r0.code)
                          /\ stu # 0
                          /\ pin_matches(pin, students[stu])
            IN /\ session' = [session EXCEPT ![s] = b.session]
               /\ nposts' = [nposts EXCEPT ![s] = @ + 1]
               /\ limited' = [limited EXCEPT ![s] = @ \/ b.abort]
               /\ IF b.abort
                  THEN /\ Move(s, Respond(r0, 429, "rate_limited", ""))
                       /\ UNCHANGED <<audit_log, snapshots>>
                  ELSE IF fields_missing(roll_no, pin, session_code)
                  THEN /\ Move(s, Respond(r1, 302, "missing_field", M_fill))
                       /\ UNCHANGED <<audit_log, snapshots>>
                  ELSE IF ~passed
                  THEN /\ audit_log' = fail.audit_log
                       /\ Move(s, fail.response)
                       /\ UNCHANGED snapshots
                  ELSE /\ snapshots' = IF c.written THEN snapshots \cup {c.file}
                                       ELSE snapshots
                       /\ Move(s, [r5 EXCEPT !.pc = "insert"])
                       /\ UNCHANGED audit_log
    /\ UNCHANGED <<clock, admin, students, day_session, attendance, nreq, flooder>>

\* An INSERT OR REPLACE in the place of the INSERT: the row that conflicts is
\* deleted and the new one stored.
kiosk_insert_replace(s) ==
    /\ req[s].pc = "insert"
    /\ LET r == Step(req[s], "insert")
           kept == SelectSeq(attendance,
                             LAMBDA a : ~(a.student_id = r.stu /\ a.day = today))
           row == [id |-> Len(attendance) + 1, student_id |-> r.stu, day |-> today,
                   status |-> "P", snapshot_path |-> r.snap_file, ip |-> s,
                   user_agent |-> Prefix(UserAgentInput, UserAgentMax)]
       IN /\ attendance' = Append(kept, row)
          /\ Move(s, [r EXCEPT !.pc = "log_ok"])
    /\ UNCHANGED <<clock, admin, students, day_session, audit_log, snapshots,
                   session, nposts, limited, nreq, flooder>>

\* INSERT INTO attendance(student_id, day, ...) VALUES(stu["id"], today(), ...);
\* commit.  sqlite3.IntegrityError is caught.
kiosk_insert(s) ==
    /\ req[s].pc = "insert"
    /\ LET r == Step(req[s], "insert")
           row == [id |-> Len(attendance) + 1, student_id |-> r.stu, day |-> today,
                   status |-> "P", snapshot_path |-> r.snap_file, ip |-> s,
                   user_agent |-> Prefix(UserAgentInput, UserAgentMax)]
       IN IF AttendanceConflict(attendance, r.stu, today)
          THEN /\ Move(s, [r EXCEPT !.pc = "log_dup"])
               /\ UNCHANGED attendance
          ELSE /\ attendance' = Append(attendance, row)
               /\ Move(s, [r EXCEPT !.pc = "log_ok"])
    /\ UNCHANGED <<clock, admin, students, day_session, audit_log, snapshots,
                   session, nposts, limited, nreq, flooder>>

\* log("CHECKIN_OK", f"roll={roll_no}, snap={snap_file or 'none'}"); the page
kiosk_log_ok(s) ==
    /\ req[s].pc = "log_ok"
    /\ LET r == Step(req[s], "log")
           snap == IF r.snap_file = None THEN T_none ELSE r.snap_file
       IN /\ audit_log' = log(audit_log, "CHECKIN_OK",
                              T_roll \o r.roll_no \o T_snap \o snap)
          /\ Move(s, Respond(r, 200, "checked_in", M_checked_in))
    /\ UNCHANGED <<clock, admin, students, day_session, attendance, snapshots,
                   session, nposts, limited, nreq, flooder>>

\* An except branch that logs the duplicate as CHECKIN_OK.
kiosk_log_dup_as_ok(s) ==
    /\ req[s].pc = "log_dup"
    /\ LET r == Step(req[s], "log")
       IN /\ audit_log' = log(audit_log, "CHECKIN_OK",
                              T_roll \o r.roll_no \o T_already)
          /\ Move(s, Respond(r, 302, "already_checked_in", M_already))
    /\ UNCHANGED <<clock, admin, students, day_session, attendance, snapshots,
                   session, nposts, limited, nreq, flooder>>

\* except sqlite3.IntegrityError: log("CHECKIN_DUP", ...); flash(...); redirect
kiosk_log_dup(s) ==
    /\ req[s].pc = "log_dup"
    /\ LET r == Step(req[s], "log")
       IN /\ audit_log' = log(audit_log, "CHECKIN_DUP",
                              T_roll \o r.roll_no \o T_already)
          /\ Move(s, Respond(r, 302, "already_checked_in", M_already))
    /\ UNCHANGED <<clock, admin, students, day_session, attendance, snapshots,
                   session, nposts, limited, nreq, flooder>>

\* -------------------------------------------------------------------- admin
\* POST /admin/login: the row of the user name, the password hashed with its
\* salt; on a match session["admin"] = True and log("ADMIN_LOGIN", user).
admin_login(s) ==
    /\ Resting(s)
    /\ MayStart
    /\ \E form \in LoginForms :
         LET user == strip(form.username)
             pw == strip(form.password)
             r == NewReq("login", "POST")
             rows == {a \in admin : a.username = user}
         IN IF rows = {} \/ \A a \in rows : hash_pw(pw, a.salt) # a.pass_hash
            THEN /\ Move(s, Respond(r, 302, "invalid_credentials", "Invalid credentials."))
                 /\ UNCHANGED <<session, audit_log>>
            ELSE /\ session' = [session EXCEPT ![s].admin = TRUE]
                 /\ audit_log' = log(audit_log, "ADMIN_LOGIN", user)
                 /\ Move(s, Respond(Step(r, "log"), 302, "logged_in", ""))
    /\ nreq' = nreq + 1
    /\ UNCHANGED <<clock, admin, students, day_session, attendance, snapshots,
                   nposts, limited, flooder>>

\* GET /admin/logout: session.clear()
admin_logout(s) ==
    /\ Resting(s)
    /\ MayStart
    /\ session' = [session EXCEPT ![s] = EmptySession]
    /\ nposts' = [nposts EXCEPT ![s] = 0]
    /\ Move(s, Respond(NewReq("logout", "GET"), 302, "logged_out", ""))
    /\ nreq' = nreq + 1
    /\ UNCHANGED <<clock, db_vars, limited, flooder>>

\* GET /admin: require_admin(), then get_or_create_session_code() and the page
admin_dashboard(s) ==
    /\ Resting(s)
    /\ MayStart
    /\ IF require_admin(session[s])
       THEN Move(s, Respond(NewReq("dashboard", "GET"), 302, "login_required", ""))
       ELSE goc_select(s, NewReq("dashboard", "GET"))
    /\ nreq' = nreq + 1
    /\ UNCHANGED <<clock, db_vars, session, nposts, limited, flooder>>

\* f"roll={roll}, name={name}, class={cls}-{sec}"
add_student_detail(roll, name, cls, sec) ==
    T_roll \o roll \o T_name \o name \o T_class \o cls \o <<"-">> \o sec

\* POST /admin/add_student: require_admin(), the five fields stripped and all
\* required, a fresh salt, INSERT INTO students and log("ADD_STUDENT", ...);
\* IntegrityError is caught.
admin_add_student(s) ==
    /\ Resting(s)
    /\ MayStart
    /\ nreq' = nreq + 1
    /\ \E roll_in \in AddRollInputs, pin_in \in AddPinInputs, salt \in Salts :
         LET roll == strip(roll_in)
             name == strip(NameInput)
             cls == strip(ClassInput)
             sec == strip(SectionInput)
             pin == strip(pin_in)
             r == [NewReq("add_student", "POST") EXCEPT
                      !.roll_no = roll,
                      !.form = [roll_no |-> roll_in, pin |-> pin_in,
                                session_code |-> <<>>]]
             row == [id |-> Len(students) + 1, roll_no |-> roll, full_name |-> name,
                     class_name |-> cls, section |-> sec,
                     pin_hash |-> hash_pw(pin, salt), salt |-> salt]
         IN IF require_admin(session[s])
            THEN /\ Move(s, Respond(r, 302, "login_required", ""))
                 /\ UNCHANGED <<students, audit_log>>
            ELSE IF <<>> \in {roll, name, cls, sec, pin}
            THEN /\ Move(s, Respond(r, 302, "missing_field", "All fields required."))
                 /\ UNCHANGED <<students, audit_log>>
            ELSE IF StudentConflict(students, roll)
            THEN /\ Move(s, Respond(r, 302, "roll_exists", "Roll number already exists."))
                 /\ UNCHANGED <<students, audit_log>>
            ELSE /\ students' = Append(students, row)
                 /\ audit_log' = log(audit_log, "ADD_STUDENT",
                                     add_student_detail(roll, name, cls, sec))
                 /\ Move(s, Respond(Step(r, "log"), 302, "student_added", "Student added."))
    /\ UNCHANGED <<clock, admin, day_session, attendance, snapshots,
                   session, nposts, limited, flooder>>

\* POST /admin/change_password: require_admin(); new must be non-empty and
\* equal new2; the old password is checked against the row of 'admin'; then
\* UPDATE admin with a fresh salt and log("ADMIN_PW_CHANGE", ...).
admin_change_password(s) ==
    /\ Resting(s)
    /\ MayStart
    /\ nreq' = nreq + 1
    /\ \E form \in ChangeForms, salt \in Salts :
         LET r == NewReq("change_password", "POST")
             rows == {a \in admin : a.username = AdminUser}
         IN IF require_admin(session[s])
            THEN /\ Move(s, Respond(r, 302, "login_required", ""))
                 /\ UNCHANGED <<admin, audit_log>>
            ELSE IF form.new = <<>> \/ form.new # form.new2
            THEN /\ Move(s, Respond(r, 302, "mismatch", "New passwords do not match."))
                 /\ UNCHANGED <<admin, audit_log>>
            ELSE IF rows = {} \/ \A a \in rows : hash_pw(form.old, a.salt) # a.pass_hash
            THEN /\ Move(s, Respond(r, 302, "old_wrong", "Old password wrong."))
                 /\ UNCHANGED <<admin, audit_log>>
            ELSE /\ admin' = {IF a \in rows
                              THEN [a EXCEPT !.pass_hash = hash_pw(form.new, salt),
                                             !.salt = salt]
                              ELSE a : a \in admin}
                 /\ audit_log' = log(audit_log, "ADMIN_PW_CHANGE",
                                     T_pw_change)
                 /\ Move(s, Respond(Step(r, "log"), 302, "password_updated",
                                    "Password updated."))
    /\ UNCHANGED <<clock, students, day_session, attendance, snapshots,
                   session, nposts, limited, flooder>>

\* ------------------------------------------------------------------ reports
\* What /admin/reports may carry in ?day=: nothing (today() is taken), a day,
\* a day with a blank in front, and a text that names no day.
DayArgs == {None, <<"1">>, <<" ", "2">>, <<"x">>}

\* FROM students s LEFT JOIN attendance a ON a.student_id=s.id AND a.day=?:
\* the rows of student number i, one for each attendance row that matches
\* and one with status 'A' and NULLs when none does.
joined_rows(st, att, day, i) ==
    LET matches == SelectSeq(att, LAMBDA a : a.student_id = st[i].id
                                             /\ DayText(a.day) = day)
        left == [roll_no |-> st[i].roll_no, full_name |-> st[i].full_name,
                 class_name |-> st[i].class_name, section |-> st[i].section]
    IN IF matches = <<>>
       THEN <<[left |-> left, status |-> "A", snapshot_path |-> None]>>
       ELSE [k \in 1..Len(matches) |->
                [left |-> left, status |-> "P",
                 snapshot_path |-> matches[k].snapshot_path]]

RECURSIVE left_join(_, _, _, _)
left_join(st, att, day, i) ==
    IF i > Len(st) THEN <<>>
    ELSE joined_rows(st, att, day, i) \o left_join(st, att, day, i + 1)

\* A roll number compared as TEXT only.
order_before_text(x, y) ==
    IF x.left.class_name # y.left.class_name
    THEN TextLess(x.left.class_name, y.left.class_name)
    ELSE IF x.left.section # y.left.section
    THEN TextLess(x.left.section, y.left.section)
    ELSE TextLess(x.left.roll_no, y.left.roll_no)

\* ORDER BY s.class_name, s.section, CAST(s.roll_no AS INT), s.roll_no:
\* x comes strictly before y.
order_before(x, y) ==
    IF x.left.class_name # y.left.class_name
    THEN TextLess(x.left.class_name, y.left.class_name)
    ELSE IF x.left.section # y.left.section
    THEN TextLess(x.left.section, y.left.section)
    ELSE IF CastInt(x.left.roll_no) # CastInt(y.left.roll_no)
    THEN CastInt(x.left.roll_no) < CastInt(y.left.roll_no)
    ELSE TextLess(x.left.roll_no, y.left.roll_no)

\* x put into the sorted sequence rows.
RECURSIVE order_insert(_, _)
order_insert(rows, x) ==
    IF rows = <<>> THEN <<x>>
    ELSE IF order_before(x, Head(rows)) THEN <<x>> \o rows
    ELSE <<Head(rows)>> \o order_insert(Tail(rows), x)

RECURSIVE order_by(_)
order_by(rows) ==
    IF rows = <<>> THEN <<>>
    ELSE order_insert(order_by(Tail(rows)), Head(rows))

\* An INNER JOIN in the place of the LEFT JOIN: students without a row of the
\* day are dropped.
report_rows_inner(st, att, day) ==
    order_by(SelectSeq(left_join(st, att, day, 1), LAMBDA x : x.status = "P"))

\* The SELECT of admin_reports().
report_rows(st, att, day) == order_by(left_join(st, att, day, 1))

\* for x in rows: present += 1 / absent += 1
count_status(rows, status) ==
    Cardinality({k \in 1..Len(rows) : rows[k].status = status})

\* An admin_reports() that looks up the code of the day as the dashboard does
\* when the day has none.
admin_reports_creating(s) ==
    /\ Resting(s)
    /\ MayStart
    /\ nreq' = nreq + 1
    /\ day_session' = IF DaySessionConflict(day_session, today) THEN day_session
                      ELSE day_session \cup {[day |-> today, session_code |-> <<"A", "1">>]}
    /\ Move(s, Respond(NewReq("reports", "GET"), 200, "page", ""))
    /\ UNCHANGED <<clock, admin, students, attendance, audit_log, snapshots,
                   session, nposts, limited, flooder>>

\* GET /admin/reports: require_admin(); day = ?day= or today(), stripped; the
\* SELECT; the counts; the page.
admin_reports(s) ==
    /\ Resting(s)
    /\ MayStart
    /\ nreq' = nreq + 1
    /\ \E arg \in DayArgs :
         LET r == NewReq("reports", "GET")
             day == strip(IF arg = None THEN DayText(today) ELSE arg)
             rows == report_rows(students, attendance, day)
         IN IF require_admin(session[s])
            THEN Move(s, Respond(r, 302, "login_required", ""))
            ELSE Move(s, Respond([r EXCEPT !.day = day, !.rows = rows,
                                           !.present = count_status(rows, "P"),
                                           !.absent = count_status(rows, "A")],
                                 200, "page", ""))
    /\ UNCHANGED <<clock, db_vars, session, nposts, limited, flooder>>

\* --------------------------------------------------------------------- init
\* init_db(): empty tables, the default admin and its INIT_ADMIN event; no
\* client has a session.  The database is taken as init_db() leaves it, and
\* also as it stands once the teacher has logged in, enrolled student 12 with
\* PIN 4 and logged out again.
Init ==
    /\ clock = 1
    /\ admin = {[id |-> 1, username |-> AdminUser,
                 pass_hash |-> hash_pw(AdminPassword, AdminSalt), salt |-> AdminSalt]}
    /\ \E enrolled \in BOOLEAN :
         IF enrolled
         THEN /\ students = <<[id |-> 1, roll_no |-> <<"1", "2">>,
                               full_name |-> NameInput, class_name |-> ClassInput,
                               section |-> SectionInput,
                               pin_hash |-> hash_pw(<<"4">>, <<"e">>),
                               salt |-> <<"e">>]>>
              /\ audit_log = <<[event |-> "INIT_ADMIN", detail |-> T_init_admin],
                               [event |-> "ADMIN_LOGIN", detail |-> AdminUser],
                               [event |-> "ADD_STUDENT",
                                detail |-> add_student_detail(<<"1", "2">>, NameInput,
                                                              ClassInput, SectionInput)]>>
         ELSE /\ students = <<>>
              /\ audit_log = <<[event |-> "INIT_ADMIN", detail |-> T_init_admin]>>
    /\ day_session = {}
    /\ attendance = <<>>
    /\ snapshots = {}
    /\ session = [s \in Sessions |-> EmptySession]
    /\ req = [s \in Sessions |-> NoReq]
    /\ resp = NoResponse
    /\ nposts = [s \in Sessions |-> 0]
    /\ limited = [s \in Sessions |-> FALSE]
    /\ nreq = 0
    /\ flooder = ""

Next ==
    \/ Tick
    \/ \E s \in Sessions :
         \/ kiosk_get(s)
         \/ kiosk_post(s)
         \/ goc_insert(s)
         \/ goc_log(s)
         \/ kiosk_check(s)
         \/ kiosk_insert(s)
         \/ kiosk_log_ok(s)
         \/ kiosk_log_dup(s)
         \/ admin_login(s)
         \/ admin_logout(s)
         \/ admin_dashboard(s)
         \/ admin_add_student(s)
         \/ admin_reports(s)
         \/ admin_change_password(s)

Spec == Init /\ [][Next]_vars

\* ------------------------------------------------- reports over any roster
\* The students a roster is made of: class, section and roll number as the
\* teacher typed them.  Rolls are numbers, numbers followed by a letter, and
\* a letter alone.
RosterCandidates ==
    {[roll_no |-> <<"1", "0">>, class_name |-> <<"X">>, section |-> <<"A">>],
     [roll_no |-> <<"9", "b">>, class_name |-> <<"X">>, section |-> <<"A">>],
     [roll_no |-> <<"1", "0", "a">>, class_name |-> <<"X">>, section |-> <<"A">>],
     [roll_no |-> <<"b">>, class_name |-> <<"X">>, section |-> <<"A">>],
     [roll_no |-> <<"2">>, class_name |-> <<"X">>, section |-> <<"B">>]}

\* The rosters: up to MaxRoster different students in any order of enrolment.
Rosters ==
    {q \in UNION {[1..n -> RosterCandidates] : n \in 0..MaxRoster} :
        \A i, j \in DOMAIN q : q[i] = q[j] => i = j}

\* INSERT INTO students of admin_add_student(), PIN 4 and salt e for everyone.
roster_students(q) ==
    [i \in DOMAIN q |->
        [id |-> i, roll_no |-> q[i].roll_no, full_name |-> NameInput,
         class_name |-> q[i].class_name, section |-> q[i].section,
         pin_hash |-> hash_pw(<<"4">>, <<"e">>), salt |-> <<"e">>]]

\* The check-ins of day d, in the order of the students' ids: the rows of
\* attendance they leave, numbered from first on.
RECURSIVE roster_attendance(_, _, _, _)
roster_attendance(pres, d, i, first) ==
    IF d > MaxDay THEN <<>>
    ELSE IF i > Len(pres) THEN roster_attendance(pres, d + 1, 1, first)
    ELSE IF d \in pres[i]
    THEN <<[id |-> first, student_id |-> i, day |-> d, status |-> "P",
            snapshot_path |-> None, ip |-> "s2",
            user_agent |-> Prefix(UserAgentInput, UserAgentMax)]>>
         \o roster_attendance(pres, d, i + 1, first + 1)
    ELSE roster_attendance(pres, d, i + 1, first)

\* The events those requests left: the login, one ADD_STUDENT for each
\* student, and for each check-in CHECKIN_OK, after NEW_DAY_SESSION when it
\* was the first request of its day.
roster_audit_log(st, att) ==
    LET adds == [i \in DOMAIN st |->
                    [event |-> "ADD_STUDENT",
                     detail |-> add_student_detail(st[i].roll_no, st[i].full_name,
                                                   st[i].class_name, st[i].section)]]
        new_day(k) ==
            IF k = 1 \/ att[k - 1].day # att[k].day
            THEN <<[event |-> "NEW_DAY_SESSION",
                    detail |-> T_day \o DayText(att[k].day) \o T_code \o <<"A", "1">>]>>
            ELSE <<>>
        ok(k) == [event |-> "CHECKIN_OK",
                  detail |-> T_roll \o st[att[k].student_id].roll_no \o T_snap \o T_none]
        checkins[k \in 0..Len(att)] ==
            IF k = 0 THEN <<>> ELSE checkins[k - 1] \o new_day(k) \o <<ok(k)>>
    IN <<[event |-> "INIT_ADMIN", detail |-> T_init_admin],
         [event |-> "ADMIN_LOGIN", detail |-> AdminUser]>>
       \o adds \o checkins[Len(att)]

\* The database after the teacher, logged in from s1, has enrolled a roster
\* and students have checked in from s2 on the first and on the last day, no
\* camera attached; it is the last day, and nothing is in flight.
ReportInit ==
    /\ clock = MaxDay
    /\ admin = {[id |-> 1, username |-> AdminUser,
                 pass_hash |-> hash_pw(AdminPassword, AdminSalt), salt |-> AdminSalt]}
    /\ \E q \in Rosters :
         \E pres \in [DOMAIN q -> SUBSET {1, MaxDay}] :
            LET st == roster_students(q)
                att == roster_attendance(pres, 1, 1, 1)
            IN /\ students = st
               /\ attendance = att
               /\ day_session = {[day |-> att[k].day, session_code |-> <<"A", "1">>] :
                                    k \in 1..Len(att)}
               /\ audit_log = roster_audit_log(st, att)
    /\ snapshots = {}
    /\ session = [s \in Sessions |->
                    IF s = "s1" THEN [EmptySession EXCEPT !.admin = TRUE]
                    ELSE EmptySession]
    /\ req = [s \in Sessions |-> NoReq]
    /\ resp = NoResponse
    /\ nposts = [s \in Sessions |-> 0]
    /\ limited = [s \in Sessions |-> FALSE]
    /\ nreq = 0
    /\ flooder = ""

ReportNext == \E s \in Sessions : admin_reports(s)

ReportSpec == ReportInit /\ [][ReportNext]_vars

\* ------------------------------------------------------------------- claims
Has(seq, x) == \E i \in 1..Len(seq) : seq[i] = x

\* A response has left.
Answered == resp.s # ""

IsCheckin(r) == r.route = "kiosk" /\ r.method = "POST"

\* The request of s as a step leaves it: its response when it has left.
After(s) == IF req'[s].pc = "idle" THEN resp'.r ELSE req'[s]

\* The attendance rows of one student and day.
RecordsOf(att, student_id, d) ==
    {i \in 1..Len(att) : att[i].student_id = student_id /\ att[i].day = d}

\* att with one row for (student_id, d) added at its end.
OneAdded(att, student_id, d) ==
    /\ Len(attendance') = Len(att) + 1
    /\ SubSeq(attendance', 1, Len(att)) = att
    /\ attendance'[Len(att) + 1].student_id = student_id
    /\ attendance'[Len(att) + 1].day = d

EqualUpToCase(a, b) ==
    /\ Len(a) = Len(b)
    /\ \A i \in 1..Len(a) : UpperChar(a[i]) = UpperChar(b[i])

Rejections ==
    {"rate_limited", "missing_field", "bad_session_code", "unknown_roll",
     "bad_pin", "already_checked_in"}

\* C1: in every reachable state, whatever check-in POSTs run concurrently and
\* however their lookup, PIN check and insert interleave, attendance holds at
\* most one record for each (student, day).
C1_OneRecordPerStudentDay ==
    \A i, j \in 1..Len(attendance) :
        (attendance[i].student_id = attendance[j].student_id
         /\ attendance[i].day = attendance[j].day) => i = j

\* Two check-ins of one student were both past the PIN check before either
\* was answered: one has inserted, the other has met the conflict.
C1_Witness ==
    \E s, t \in Sessions :
        /\ req[s].pc = "log_ok"
        /\ req[t].pc = "log_dup"
        /\ req[s].stu = req[t].stu
        /\ Len(attendance) = 1

\* C2: for every day there is at most one day_session row, a stored row never
\* changes or disappears, and every call of get_or_create_session_code that
\* has returned a code for day D (to kiosk GET, kiosk POST or the dashboard)
\* returned the code of D's row.
C2_Returned(r) ==
    r.code # None => [day |-> r.d, session_code |-> r.code] \in day_session

C2_OneCodePerDay ==
    /\ [](/\ \A x, y \in day_session : x.day = y.day => x = y
          /\ \A s \in Sessions : C2_Returned(req[s])
          /\ C2_Returned(resp.r))
    /\ [][day_session \subseteq day_session']_vars

\* A call has found the row of the day and returned its code, the code that
\* another request of the same day holds.
C2_Witness ==
    /\ Answered
    /\ resp.r.trace = <<"goc_select">>
    /\ resp.r.code # None
    /\ \E x \in day_session : x.day = resp.r.d /\ x.session_code = resp.r.code
    /\ \E s \in Sessions : req[s].code = resp.r.code /\ req[s].d = resp.r.d

\* C3 (as the specification states it): no call of
\* get_or_create_session_code ends in an error; a caller whose insert
\* conflicts rereads the row and returns its code.
C3_NoCallerEndsInError ==
    Answered => resp.r.status # 500

\* C4: for the check-in POSTs that reach the limiter, the n-th one since the
\* session's counter was absent is answered 429 exactly when n > 20, and a
\* POST answered 429 has read no field, compared no code, looked up no
\* student, checked no PIN and inserted nothing.
C4_RejectedPastTwenty ==
    /\ (Answered /\ IsCheckin(resp.r) /\ Has(resp.r.trace, "bump")) =>
           /\ resp.r.status = 429 <=> resp.r.n > max_attempts
           /\ resp.r.status = 429 =>
                  /\ \A l \in {"fields", "code_cmp", "lookup", "pin_check",
                               "snapshot", "insert", "log"} : ~Has(resp.r.trace, l)
                  /\ resp.r.stu = 0
    /\ \A s \in Sessions :
           req[s].pc \in {"insert", "log_ok", "log_dup"} => req[s].n <= max_attempts

\* The 21st POST of a session, its fields filled in, has been answered 429.
C4_Witness ==
    /\ Answered
    /\ IsCheckin(resp.r)
    /\ resp.r.status = 429
    /\ resp.r.n = max_attempts + 1
    /\ ~resp.r.empty_form

\* C5 (as the specification states it): once a check-in POST of a session has
\* been answered 429, every later check-in POST of that session that reaches
\* the limiter is answered 429, whatever the session did in between.
C5_OnceLimitedAlwaysLimited ==
    (Answered /\ IsCheckin(resp.r) /\ Has(resp.r.trace, "bump")
     /\ resp.r.was_limited) => resp.r.status = 429

\* C6 (as the specification states it): a check-in POST answered 429 has
\* looked up or created no session code.
C6_LimiterBeforeRegistry ==
    (Answered /\ IsCheckin(resp.r) /\ resp.r.status = 429) =>
        \A l \in {"goc_select", "goc_insert", "goc_log"} : ~Has(resp.r.trace, l)

\* C6 (amended): a check-in POST answered 429 has first obtained today's code
\* (reading the row, or inserting it and logging NEW_DAY_SESSION when the day
\* had none) and has then met the limiter, and has done nothing else.
C6_RegistryBeforeLimiter ==
    (Answered /\ IsCheckin(resp.r) /\ resp.r.status = 429) =>
        /\ resp.r.trace \in {<<"goc_select", "bump">>,
                             <<"goc_select", "goc_insert", "goc_log", "bump">>}
        /\ [day |-> resp.r.d, session_code |-> resp.r.code] \in day_session

\* A POST answered 429 has created the row of its day and logged it.
C6_Witness ==
    /\ Answered
    /\ IsCheckin(resp.r)
    /\ resp.r.status = 429
    /\ Has(resp.r.trace, "goc_insert")
    /\ \E i \in 1..Len(audit_log) :
          /\ audit_log[i].event = "NEW_DAY_SESSION"
          /\ audit_log[i].detail = T_day \o DayText(resp.r.d) \o T_code \o resp.r.code

\* C7: a check-in POST past the limiter with three non-empty fields whose
\* trimmed, upper-cased session code differs from the code the handler holds
\* as today's is rejected as bad_session_code, with no student looked up and
\* no PIN hash compared, whatever roll number and PIN it carries.
C7_Wrong(r) ==
    /\ IsCheckin(r)
    /\ Has(r.trace, "fields")
    /\ r.roll_no # <<>> /\ r.pin # <<>> /\ r.session_code # <<>>
    /\ r.session_code # r.code

C7_BadCodeRejectedFirst ==
    /\ (Answered /\ C7_Wrong(resp.r)) =>
           /\ resp.r.outcome = "bad_session_code"
           /\ resp.r.msg = M_wrong_code
           /\ ~Has(resp.r.trace, "lookup")
           /\ ~Has(resp.r.trace, "pin_check")
           /\ resp.r.stu = 0
    /\ \A s \in Sessions : ~C7_Wrong(req[s])

\* A POST with the enrolled student's roll number and PIN and a wrong code has
\* been rejected as bad_session_code.
C7_Witness ==
    /\ Answered
    /\ C7_Wrong(resp.r)
    /\ resp.r.outcome = "bad_session_code"
    /\ \E i \in 1..Len(students) :
          /\ students[i].roll_no = resp.r.roll_no
          /\ hash_pw(resp.r.pin, students[i].salt) = students[i].pin_hash

\* C8 (as the specification states it): the step in which a check-in POST is
\* rejected for a missing field, a bad session code, an unknown roll number or
\* a bad PIN appends a CHECKIN_FAIL event to the audit log.
C8_EveryRejectionLogged ==
    [][\A s \in Sessions :
          (/\ req[s].pc = "post"
           /\ req'[s].pc = "idle"
           /\ resp'.r.outcome \in {"missing_field", "bad_session_code",
                                   "unknown_roll", "bad_pin"}) =>
              /\ Len(audit_log') = Len(audit_log) + 1
              /\ audit_log'[Len(audit_log')].event = "CHECKIN_FAIL"]_vars

\* C9: a check-in POST past the limiter that names an enrolled student, with
\* that student's PIN and a code equal to the handler's code of today up to
\* letter case, goes on to the insert; the insert adds exactly one record for
\* (student, today) when there is none and the POST is answered as checked
\* in; when there is one, the table stays as it is and the POST is answered
\* as already checked in.
C9_Check(s) ==
    (req[s].pc = "post" /\ req'[s].pc # "post") =>
        LET r == After(s)
            i == FindStudent(students, strip(r.form.roll_no))
        IN (/\ Has(r.trace, "fields")
            /\ EqualUpToCase(strip(r.form.session_code), r.code)
            /\ i # 0
            /\ hash_pw(strip(r.form.pin), students[i].salt) = students[i].pin_hash)
           => r.pc = "insert" /\ r.stu = i

C9_Insert(s) ==
    (req[s].pc = "insert" /\ req'[s].pc # "insert") =>
        IF RecordsOf(attendance, req[s].stu, clock) = {}
        THEN /\ OneAdded(attendance, req[s].stu, clock)
             /\ req'[s].pc = "log_ok"
        ELSE /\ attendance' = attendance
             /\ req'[s].pc = "log_dup"

C9_Answer(s) ==
    /\ (req[s].pc = "log_ok" /\ req'[s].pc # "log_ok") =>
           /\ resp'.s = s
           /\ resp'.r.outcome = "checked_in"
           /\ resp'.r.status = 200
           /\ attendance' = attendance
    /\ (req[s].pc = "log_dup" /\ req'[s].pc # "log_dup") =>
           /\ resp'.s = s
           /\ resp'.r.outcome = "already_checked_in"
           /\ resp'.r.msg = M_already
           /\ attendance' = attendance

C9_CorrectPostChecksInOnce ==
    [][\A s \in Sessions : C9_Check(s) /\ C9_Insert(s) /\ C9_Answer(s)]_vars

\* A student has checked in, and a later correct POST for the same student on
\* the same day has been answered as already checked in.
C9_Witness ==
    /\ Answered
    /\ resp.r.outcome = "already_checked_in"
    /\ Len(attendance) = 1
    /\ attendance[1].student_id = resp.r.stu
    /\ attendance[1].day = clock
    /\ \E i \in 1..Len(audit_log) : audit_log[i].event = "CHECKIN_OK"

\* C10: the attendance table changes only by one record added for student S
\* by a check-in POST that passed the limiter, had three non-empty fields,
\* presented the stored code of its day, named S's roll number and gave a PIN
\* whose hash is S's pin_hash, and that POST is answered as checked in; the
\* step that answers a POST with a rejection leaves the table unchanged.
C10_Created ==
    attendance' # attendance =>
        \E s \in Sessions :
            LET r == req[s] IN
            /\ r.pc = "insert" /\ req'[s].pc = "log_ok"
            /\ IsCheckin(r)
            /\ Has(r.trace, "bump") /\ r.n <= max_attempts
            /\ strip(r.form.roll_no) # <<>>
            /\ strip(r.form.pin) # <<>>
            /\ strip(r.form.session_code) # <<>>
            /\ \E x \in day_session :
                  x.day = r.d /\ EqualUpToCase(strip(r.form.session_code), x.session_code)
            /\ r.stu \in 1..Len(students)
            /\ students[r.stu].roll_no = strip(r.form.roll_no)
            /\ hash_pw(strip(r.form.pin), students[r.stu].salt) = students[r.stu].pin_hash
            /\ OneAdded(attendance, r.stu, clock)

C10_Rejected(s) ==
    (/\ req[s].pc # "idle"
     /\ req'[s].pc = "idle"
     /\ IsCheckin(resp'.r)
     /\ resp'.r.outcome \in Rejections) =>
        /\ attendance' = attendance
        /\ req[s].pc # "log_ok"

C10_OnlyValidPostCreates ==
    [][C10_Created /\ \A s \in Sessions : C10_Rejected(s)]_vars

\* A record has been created, and a POST with a wrong PIN has been rejected.
C10_Witness ==
    /\ Answered
    /\ Len(attendance) >= 1
    /\ IsCheckin(resp.r)
    /\ resp.r.outcome = "bad_pin"
    /\ resp.r.stu # 0

\* A report page has been answered.
IsReport(r) == r.route = "reports" /\ r.status = 200

\* The attendance rows of student number i on the day named by the text day.
ReportRecords(i, day) ==
    {k \in 1..Len(attendance) :
        attendance[k].student_id = i /\ DayText(attendance[k].day) = day}

\* C11: for any day asked for and any roster and attendance, the report lists
\* every enrolled student exactly once, marks a student present exactly when
\* an attendance record exists for (student, day), and its present and absent
\* counts add up to the roster's size, the present count being the number of
\* the day's attendance records.
C11_ReportMatchesAttendance ==
    (Answered /\ IsReport(resp.r)) =>
        LET rows == resp.r.rows
            day == resp.r.day
        IN /\ Len(rows) = Len(students)
           /\ \A i \in 1..Len(students) :
                 \E k \in 1..Len(rows) :
                    /\ rows[k].left.roll_no = students[i].roll_no
                    /\ rows[k].left.class_name = students[i].class_name
                    /\ rows[k].left.section = students[i].section
                    /\ rows[k].status = "P" <=> ReportRecords(i, day) # {}
                    /\ \A m \in 1..Len(rows) :
                          rows[m].left.roll_no = students[i].roll_no => m = k
           /\ resp.r.present + resp.r.absent = Len(students)
           /\ resp.r.present =
                 Cardinality({k \in 1..Len(attendance) : DayText(attendance[k].day) = day})

\* A report of a day on which one student of the roster was present and
\* another was not.
C11_Witness ==
    /\ Answered
    /\ IsReport(resp.r)
    /\ resp.r.present >= 1
    /\ resp.r.absent >= 1
    /\ \E k \in 1..Len(attendance) : DayText(attendance[k].day) # resp.r.day

\* C12 (as the specification states it): every check-in POST that has been
\* answered ended in one of the seven defined outcomes.
C12_EveryPostEndsDefined ==
    (Answered /\ IsCheckin(resp.r)) =>
        resp.r.outcome \in Rejections \cup {"checked_in"}

\* C13: the step that answers a report, whatever day it was asked for, leaves
\* students, attendance, day_session and audit_log (and the admin table and
\* the snapshot files) as they were.
C13_ReportStep ==
    /\ nreq' = nreq + 1
    /\ req' = req
    /\ clock' = clock
    /\ resp'.s \in Sessions
    /\ resp'.r.route = "reports"

C13_ReportReadOnly ==
    [][C13_ReportStep => UNCHANGED db_vars]_vars

\* A report of a day other than today has been answered: the one student is
\* listed absent, and there is still no attendance row and no day_session row.
C13_Witness ==
    /\ Answered
    /\ IsReport(resp.r)
    /\ resp.r.day # DayText(clock)
    /\ resp.r.absent = 1
    /\ attendance = <<>>
    /\ day_session = {}

\* C14 (as the specification states it): the rejections for a bad session
\* code, an unknown roll number and a wrong PIN show the user one and the same
\* message, that of the bad session code.
C14_OneMessage ==
    (Answered /\ IsCheckin(resp.r)
     /\ resp.r.outcome \in {"bad_session_code", "unknown_roll", "bad_pin"}) =>
        resp.r.msg = M_wrong_code

\* C15 (as the specification states it): the record a check-in adds carries
\* the day of which the request read and was shown to present the code.
C15_RecordCarriesValidatedDay ==
    [][attendance' # attendance =>
          \E s \in Sessions :
              /\ req[s].pc = "insert"
              /\ req'[s].pc = "log_ok"
              /\ attendance'[Len(attendance')].day = req[s].d]_vars

\* The NEW_DAY_SESSION events of day d.
NewDayEvents(al, d) ==
    {k \in 1..Len(al) :
        /\ al[k].event = "NEW_DAY_SESSION"
        /\ Prefix(al[k].detail, Len(T_day) + 1) = T_day \o DayText(d)}

\* C16: a NEW_DAY_SESSION event is appended only by the call of
\* get_or_create_session_code that inserted the row it names, and a day never
\* has more such events than day_session rows, which is at most one.
C16_EventOnCreationOnly ==
    /\ [](\A d \in 1..MaxDay :
             /\ Cardinality(NewDayEvents(audit_log, d))
                    <= Cardinality({x \in day_session : x.day = d})
             /\ Cardinality(NewDayEvents(audit_log, d)) <= 1)
    /\ [][\A d \in 1..MaxDay :
             NewDayEvents(audit_log', d) # NewDayEvents(audit_log, d) =>
                 \E s \in Sessions :
                     /\ req[s].pc = "goc_log"
                     /\ req[s].trace = <<"goc_select", "goc_insert">>
                     /\ req[s].d = d
                     /\ [day |-> d, session_code |-> req[s].code] \in day_session
                     /\ audit_log' = Append(audit_log,
                            [event |-> "NEW_DAY_SESSION",
                             detail |-> T_day \o DayText(d) \o T_code \o req[s].code])]_vars

\* A call has found the row of its day and returned; the day has its one
\* event, left by the call that created the row.
C16_Witness ==
    /\ Answered
    /\ resp.r.trace = <<"goc_select">>
    /\ resp.r.code # None
    /\ Cardinality(NewDayEvents(audit_log, resp.r.d)) = 1
    /\ Len(audit_log) >= 2

\* C17 (as the specification states it): a file name that capture_snapshot
\* has returned names a frame that was persisted.
C17_FileNameMeansFile ==
    \A s \in Sessions :
        (req[s].pc \in {"insert", "log_ok", "log_dup"} /\ req[s].snap_file # None) =>
            req[s].snap_file \in snapshots

\* C18: no step deletes, changes or reorders stored audit events, and every
\* stored detail has at most 1000 characters.
C18_AppendOnlyBounded ==
    /\ [](\A k \in 1..Len(audit_log) : Len(audit_log[k].detail) <= DetailMax)
    /\ [][/\ Len(audit_log') >= Len(audit_log)
          /\ SubSeq(audit_log', 1, Len(audit_log)) = audit_log]_vars

\* A rejection whose detail was longer than 1000 characters has been logged,
\* cut to 1000, after the events that were there.
C18_Witness ==
    /\ Len(audit_log) >= 2
    /\ audit_log[Len(audit_log)].event = "CHECKIN_FAIL"
    /\ Len(audit_log[Len(audit_log)].detail) = DetailMax
    /\ audit_log[1].event = "INIT_ADMIN"

\* C19: the roster changes only by one student appended by an add-student
\* request of a session logged in as admin, with roll number and PIN
\* non-empty and the roll number unused, and such a request does append one;
\* every other step leaves the roster as it is; roll numbers stay unique.
C19_AddStep(s) ==
    /\ nreq' = nreq + 1
    /\ req' = req
    /\ clock' = clock
    /\ resp'.s = s
    /\ resp'.r.route = "add_student"

C19_Valid(s) ==
    /\ session[s].admin
    /\ strip(resp'.r.form.roll_no) # <<>>
    /\ strip(resp'.r.form.pin) # <<>>
    /\ \A i \in 1..Len(students) : students[i].roll_no # strip(resp'.r.form.roll_no)

C19_OneAdded(s) ==
    /\ Len(students') = Len(students) + 1
    /\ SubSeq(students', 1, Len(students)) = students
    /\ students'[Len(students')].roll_no = strip(resp'.r.form.roll_no)

C19_RosterByAdminOnly ==
    /\ [](\A i, j \in 1..Len(students) :
             students[i].roll_no = students[j].roll_no => i = j)
    /\ [][/\ students' # students =>
                \E s \in Sessions : C19_AddStep(s) /\ C19_Valid(s) /\ C19_OneAdded(s)
          /\ \A s \in Sessions :
                (C19_AddStep(s) /\ C19_Valid(s)) => C19_OneAdded(s)]_vars

\* A logged-in session has added a student, and the roster ends with it.
C19_Witness ==
    /\ Answered
    /\ resp.r.outcome = "student_added"
    /\ session[resp.s].admin
    /\ Len(students) >= 1
    /\ students[Len(students)].roll_no = resp.r.roll_no

\* C20 (as the specification states it): within a class and section the
\* report is in numeric order of the rolls when both rolls are numbers, and
\* in lexical order as soon as one of them is not.
C20_IsNumber(t) == t # <<>> /\ \A i \in 1..Len(t) : IsDigit(t[i])

C20_LexicalFallback ==
    (Answered /\ IsReport(resp.r)) =>
        \A k \in 1..Len(resp.r.rows) - 1 :
            LET x == resp.r.rows[k].left
                y == resp.r.rows[k + 1].left
            IN (x.class_name = y.class_name /\ x.section = y.section) =>
                  IF C20_IsNumber(x.roll_no) /\ C20_IsNumber(y.roll_no)
                  THEN DigitsValue(x.roll_no, 0) <= DigitsValue(y.roll_no, 0)
                  ELSE TextLess(x.roll_no, y.roll_no)

\* C20 (amended): the report is ordered by class and then section, both as
\* text, then by the integer that CAST reads at the start of the roll number
\* (a sign and digits; 0 when there is none), then by the roll number as text; any two rows differ in
\* these keys, so the order is fully determined by them.
C20_KeyBefore(x, y) ==
    \/ TextLess(x.class_name, y.class_name)
    \/ /\ x.class_name = y.class_name
       /\ \/ TextLess(x.section, y.section)
          \/ /\ x.section = y.section
             /\ \/ CastInt(x.roll_no) < CastInt(y.roll_no)
                \/ /\ CastInt(x.roll_no) = CastInt(y.roll_no)
                   /\ TextLess(x.roll_no, y.roll_no)

C20_OrderedByKeys ==
    (Answered /\ IsReport(resp.r)) =>
        \A k, m \in 1..Len(resp.r.rows) :
            k < m => C20_KeyBefore(resp.r.rows[k].left, resp.r.rows[m].left)

\* A report that lists roll 9b before roll 10a, or before roll 10.
C20_Witness ==
    /\ Answered
    /\ IsReport(resp.r)
    /\ \E k \in 1..Len(resp.r.rows) - 1 :
          /\ resp.r.rows[k].left.roll_no = <<"9", "b">>
          /\ resp.r.rows[k + 1].left.roll_no \in {<<"1", "0", "a">>, <<"1", "0">>}

\* C21: no step updates or deletes an attendance record: whatever the
\* operation (check-in, report, admin action, midnight), the records that were
\* there stay, with their fields and in their places.
C21_RecordsKept ==
    [][/\ Len(attendance') >= Len(attendance)
       /\ \A k \in 1..Len(attendance) : attendance'[k] = attendance[k]]_vars

\* A record of an earlier day is there, unchanged, after midnight has passed
\* and a request has been answered.
C21_Witness ==
    /\ Len(attendance) >= 1
    /\ attendance[1].day < clock
    /\ attendance[1].status = "P"
    /\ Answered

\* The audit events named event.
EventsNamed(al, event) == {k \in 1..Len(al) : al[k].event = event}

\* C22: there are never more CHECKIN_OK events than attendance records; a
\* CHECKIN_OK event is appended only by a check-in whose insert has been
\* committed; a check-in whose insert met the uniqueness conflict appends
\* nothing at the insert and then one CHECKIN_DUP event, and no CHECKIN_OK.
C22_OkAppended(s) ==
    /\ req[s].pc = "log_ok"
    /\ req'[s].pc = "idle"
    /\ \E k \in 1..Len(attendance) :
          attendance[k].student_id = req[s].stu /\ attendance[k].ip = s
    /\ audit_log' = Append(audit_log, audit_log'[Len(audit_log')])

C22_DupAppended(s) ==
    /\ (req[s].pc = "insert" /\ req'[s].pc = "log_dup") =>
           audit_log' = audit_log /\ attendance' = attendance
    /\ (req[s].pc = "log_dup" /\ req'[s].pc # "log_dup") =>
           /\ Len(audit_log') = Len(audit_log) + 1
           /\ SubSeq(audit_log', 1, Len(audit_log)) = audit_log
           /\ audit_log'[Len(audit_log')].event = "CHECKIN_DUP"
           /\ audit_log'[Len(audit_log')].detail =
                  Prefix(T_roll \o req[s].roll_no \o T_already, DetailMax)

C22_OkMeansStored ==
    /\ [](Cardinality(EventsNamed(audit_log, "CHECKIN_OK")) <= Len(attendance))
    /\ [][/\ EventsNamed(audit_log', "CHECKIN_OK") # EventsNamed(audit_log, "CHECKIN_OK") =>
                \E s \in Sessions : C22_OkAppended(s)
          /\ \A s \in Sessions : C22_DupAppended(s)]_vars

\* One check-in has been stored and logged as CHECKIN_OK, and a second one of
\* the same student and day has been logged as CHECKIN_DUP.
C22_Witness ==
    /\ Len(attendance) = 1
    /\ Cardinality(EventsNamed(audit_log, "CHECKIN_OK")) = 1
    /\ Cardinality(EventsNamed(audit_log, "CHECKIN_DUP")) = 1

====
